---- MODULE Spec2Model ----
(***************************************************************************)
(* Model of the democracy-os API core: the nullifier vote ledger and the   *)
(* result gate (apps/api/src/routes/votes.ts), the poll update route, the  *)
(* audit trail written by the moderation route, the two verifiers of the   *)
(* audit hash chain (packages/crypto and the standalone audit verifier)    *)
(* and the consultation stage machine (routes/consultations.ts), over the  *)
(* tables of migrations 001 and 002.                                       *)
(*                                                                         *)
(* Every handler issues its SQL statements through Database.query, i.e.    *)
(* pool.query: each statement is its own autocommit transaction, and the   *)
(* handler awaits between statements.  One action of the model is one      *)
(* statement (with the synchronous JavaScript around it), so handlers of   *)
(* different requests interleave between statements.                       *)
(*                                                                         *)
(* Strings are modelled as strings; SQL NULL is the string NULL for text   *)
(* columns, 0 for uuid columns (ids start at 1) and NoTime for timestamps. *)
(***************************************************************************)
EXTENDS Integers, Sequences, FiniteSets, TLC

(* ------------------------------- bounds -------------------------------- *)
\* number of POST /:pollId/vote requests
MaxCalls == 2
\* last instant of the clock
MaxTime == 2
\* number of POST /comments/:commentId/hide requests
MaxHides == 2
\* number of events of an audit bundle
MaxEvents == 2
\* number of in-place changes made to an audit bundle
MaxTampers == 1
\* number of POST /:pollId/transition requests
MaxTransitions == 3
\* number of POST /:pollId/ideas requests
MaxSubmits == 1
\* number of rows of consultation_ideas
MaxIdeas == 3
\* POST /:pollId/ideas/:ideaId/vote requests
MaxIdeaVotes == 2
\* idea-vote requests made while stage transitions are requested
MaxVotesInTransition == 1
\* calls of generateNullifier
MaxDerived == 2
\* POST /:pollId/transition requests made while votes are cast and results read
MaxArbitrations == 1

(* ------------------------------ constants ------------------------------ *)
NULL == "NULL"
NoTime == -1

PollIds == {"p1"}
UserIds == {"u1", "u2"}
\* users.secret_salt
secret_salt == [u \in UserIds |-> IF u = "u1" THEN "s1" ELSE "s2"]
\* the options the poll was created with, and the option ids a request names
InitialOptions == <<[id |-> "o1", text |-> "yes"], [id |-> "o2", text |-> "no"]>>
RequestOptionIds == {"o1", "o2", "ox"}
PollStatus == {"draft", "active", "closed"}
\* timestamps a poll may carry
PollTimes == {1}

Calls == 1..MaxCalls

TenantIds == {"t1", "t2"}
\* moderators (users.tenant_id) and comments (the tenant of the comment's poll)
ModeratorTenant == [u \in {"m1", "m2"} |-> IF u = "m1" THEN "t1" ELSE "t2"]
CommentTenant == [k \in {"k1", "k2"} |-> IF k = "k1" THEN "t1" ELSE "t2"]
ModeratorIds == DOMAIN ModeratorTenant
CommentIds == DOMAIN CommentTenant

Hides == 1..MaxHides

(* ------------------------------- hashing ------------------------------- *)
\* a collision-free digest: distinct inputs give distinct strings
sha256(data) == "sha256(" \o data \o ")"

generateNullifier(pollId, userSecretSalt) == sha256(pollId \o ":" \o userSecretSalt)

\* previousEventHash ? `${previousEventHash}:${payloadHash}` : payloadHash, hashed
generateChainHash(payloadHash, previousEventHash) ==
  sha256(IF previousEventHash # NULL /\ previousEventHash # ""
           THEN previousEventHash \o ":" \o payloadHash
           ELSE payloadHash)

RECURSIVE verifyFrom(_, _)
\* the loop of verifyHashChain from index i on (1-based)
verifyFrom(events, i) ==
  IF i > Len(events) THEN TRUE
  ELSE IF i = 1
    THEN IF events[i].previous_event_hash # NULL THEN FALSE
         ELSE verifyFrom(events, i + 1)
    ELSE IF events[i].previous_event_hash #
              generateChainHash(events[i - 1].payload_hash,
                                events[i - 1].previous_event_hash)
           THEN FALSE
           ELSE verifyFrom(events, i + 1)

\* the loop starts at the second event
verifyHashChain_SkipFirst(events) == verifyFrom(events, 2)

verifyHashChain(events) == verifyFrom(events, 1)

\* a member of a JSON object: a key with a scalar, or with a nested object given
\* as its members in insertion order
Member(key, value) == [key |-> key, isObject |-> FALSE, value |-> value, members |-> <<>>]
ObjectMember(key, members) ==
  [key |-> key, isObject |-> TRUE, value |-> "", members |-> members]

\* Object.keys(object): the keys in insertion order
ObjectKeys(object) == [i \in 1..Len(object) |-> object[i].key]

\* the keys the objects of the model use, in the order of String comparison
KeyOrder == <<"a", "action", "b", "c", "commentId", "moderatorId">>

\* keys.sort()
sort(keys) == SelectSeq(KeyOrder, LAMBDA k : \E i \in 1..Len(keys) : keys[i] = k)

RECURSIVE SerializeJSONObject(_, _, _)
RECURSIVE JoinMembers(_, _, _, _, _)

\* JSON.stringify's SerializeJSONObject: with an array replacer the property list
\* names the keys written, and their order, for the object and for every object
\* nested in it; without one an object's own keys are written in insertion order
SerializeJSONObject(object, hasPropertyList, PropertyList) ==
  LET K == IF hasPropertyList THEN PropertyList ELSE ObjectKeys(object)
      present == SelectSeq(K, LAMBDA k : \E i \in 1..Len(object) : object[i].key = k)
  IN  "{" \o JoinMembers(object, present, 1, hasPropertyList, PropertyList) \o "}"

JoinMembers(object, K, i, hasPropertyList, PropertyList) ==
  IF i > Len(K) THEN ""
  ELSE LET m == object[CHOOSE j \in 1..Len(object) : object[j].key = K[i]]
       IN  (IF i > 1 THEN "," ELSE "") \o K[i] \o ":"
             \o (IF m.isObject
                   THEN SerializeJSONObject(m.members, hasPropertyList, PropertyList)
                   ELSE m.value)
             \o JoinMembers(object, K, i + 1, hasPropertyList, PropertyList)

\* JSON.stringify(object)
JSONstringify(object) == SerializeJSONObject(object, FALSE, <<>>)

\* generateHash of an object: the digest of JSON.stringify(data)
generateHash(data) == sha256(JSONstringify(data))

\* the standalone verifier's digest: JSON.stringify(payload, Object.keys(payload).sort())
computePayloadHash(payload) ==
  sha256(SerializeJSONObject(payload, TRUE, sort(ObjectKeys(payload))))

(* -------------------------------- state -------------------------------- *)
VARIABLES
  polls,        \* polls table: id -> [status, start_time, end_time, options]
  now,          \* the clock read by new Date()
  votes,        \* votes table: set of rows
  nextVoteId,   \* next value of uuid_generate_v4() for votes.id
  cast,         \* POST /:pollId/vote requests: call -> locals and response
  latest,       \* history: nullifier -> option of the last cast that reached its INSERT
  raced,        \* history: nullifiers for which two casts have overlapped in time
  reader,       \* the GET /:pollId/results[/export|/public] request: locals and response
  is_hidden,    \* comments.is_hidden: comment id -> BOOLEAN
  audit_events, \* audit_events table: rows in the order of created_at
  hide,         \* POST /comments/:commentId/hide requests: request -> locals
  appendLog,    \* history: for each audit row, the request that wrote it and the
                \* requests that were in progress at that moment
  bundle,       \* AuditBundle.events: the events of an exported audit bundle
  pristine,     \* history: the events as they were appended
  tampers,      \* history: number of in-place changes made to the bundle
  verdict,      \* the last answers of GET /audit/verify and of the standalone verifier
  consultation_stages, \* consultation_stages table: poll id -> row
  consultation_ideas,  \* consultation_ideas table: rows in the order of created_at
  transition,   \* POST /:pollId/transition requests: request -> locals and response
  submit,       \* POST /:pollId/ideas requests: request -> locals and response
  shortlistings, \* history: poll id -> number of times the shortlisting UPDATE has run
  consultation_idea_votes, \* consultation_idea_votes table: set of rows
  ideaVote,     \* POST /:pollId/ideas/:ideaId/vote requests: request -> locals and response
  derived       \* the calls of generateNullifier made: arguments and result

auditVars == <<is_hidden, audit_events, hide, appendLog>>

verifierVars == <<bundle, pristine, tampers, verdict>>

consultVars == <<consultation_stages, consultation_ideas, transition, submit, shortlistings>>

ideaVoteVars == <<consultation_idea_votes, ideaVote>>

vars == <<polls, now, votes, nextVoteId, cast, latest, raced, reader, auditVars,
          verifierVars, consultVars, ideaVoteVars, derived>>

NoVote == [id |-> 0, poll_id |-> NULL, nullifier |-> NULL, option_id |-> NULL,
           previous_vote_id |-> 0]

NoResponse == [success |-> FALSE, error |-> NULL, vote |-> NoVote]

\* A request that has not arrived.  The locals of a handler (all fields but pc
\* and response) go out of scope when it returns, and are reset to these values.
\* before and alone are history: the votes table when the request arrived, and
\* whether no other vote request has been in progress during this one so far.
IdleCall == [pc |-> "idle", userId |-> NULL, pollId |-> NULL, optionId |-> NULL,
             nullifier |-> NULL, previousVoteId |-> 0, response |-> NoResponse,
             before |-> {}, alone |-> TRUE]

Nullifiers == {generateNullifier(p, secret_salt[u]) : p \in PollIds, u \in UserIds}

(* ------------------------------ votes table ---------------------------- *)
\* SELECT ... FROM votes WHERE poll_id = $1 AND nullifier = $2
SelectVotes(rows, pollId, nullifier) ==
  {v \in rows : v.poll_id = pollId /\ v.nullifier = nullifier}

\* UNIQUE(poll_id, nullifier): would inserting this key violate the constraint?
UniqueViolation_NoConstraint(rows, pollId, nullifier) == FALSE

UniqueViolation(rows, pollId, nullifier) ==
  SelectVotes(rows, pollId, nullifier) # {}

\* DELETE FROM votes WHERE id = $1, with previous_vote_id ... ON DELETE SET NULL
DeleteVote(rows, voteId) ==
  {IF v.previous_vote_id = voteId THEN [v EXCEPT !.previous_vote_id = 0] ELSE v :
     v \in {w \in rows : w.id # voteId}}

\* GET /:pollId/has-voted
hasVoted(rows, pollId, nullifier) ==
  LET voteResult == SelectVotes(rows, pollId, nullifier)
  IN  IF voteResult # {}
        THEN [hasVoted |-> TRUE, optionId |-> (CHOOSE v \in voteResult : TRUE).option_id]
        ELSE [hasVoted |-> FALSE, optionId |-> NULL]

OptionIds(options) == {options[i].id : i \in 1..Len(options)}

(* --------------------------- POST /:pollId/vote ------------------------ *)
\* The checks of the handler on the poll row it has read, in source order;
\* NULL when the request passes them all.
VoteValidation_NoStatusCheck(poll, t, optionId) ==
  IF poll.start_time # NoTime /\ poll.start_time > t THEN "Poll has not started yet"
  ELSE IF poll.end_time # NoTime /\ poll.end_time < t THEN "Poll has ended"
  ELSE IF optionId \notin OptionIds(poll.options) THEN "Invalid option ID"
  ELSE NULL

VoteValidation(poll, t, optionId) ==
  IF poll.status # "active" THEN "Poll is not active"
  ELSE IF poll.start_time # NoTime /\ poll.start_time > t THEN "Poll has not started yet"
  ELSE IF poll.end_time # NoTime /\ poll.end_time < t THEN "Poll has ended"
  ELSE IF optionId \notin OptionIds(poll.options) THEN "Invalid option ID"
  ELSE NULL

InFlight(c) == cast[c].pc \notin {"idle", "done"}

\* the handler returns: next(error) or res.json(response)
Return(call, response) == [IdleCall EXCEPT !.pc = "done", !.response = response]

Failure(message) == [success |-> FALSE, error |-> message, vote |-> NoVote]

\* lines 25-75: read the poll, validate, read the salt, derive the nullifier
CastBegin(c, userId, pollId, optionId) ==
  /\ cast[c].pc = "idle"
  /\ IF c = 1 THEN TRUE ELSE cast[c - 1].pc # "idle"
  /\ LET failure == VoteValidation(polls[pollId], now, optionId)
         nullifier == generateNullifier(pollId, secret_salt[userId])
         others == {d \in Calls : InFlight(d)}
     IN  /\ cast' = [d \in Calls |->
                       IF d = c
                         THEN IF failure # NULL
                                THEN Return(cast[c], Failure(failure))
                                ELSE [cast[c] EXCEPT !.pc = "select", !.userId = userId,
                                                     !.pollId = pollId,
                                                     !.optionId = optionId,
                                                     !.nullifier = nullifier,
                                                     !.before = votes,
                                                     !.alone = (others = {})]
                       ELSE IF d \in others /\ failure = NULL
                         THEN [cast[d] EXCEPT !.alone = FALSE]
                         ELSE cast[d]]
         /\ raced' = IF failure = NULL /\ \E d \in others : cast[d].nullifier = nullifier
                       THEN raced \cup {nullifier}
                       ELSE raced
  /\ UNCHANGED <<polls, now, votes, nextVoteId, latest, reader, auditVars, verifierVars, consultVars, ideaVoteVars, derived>>

\* lines 77-85: has this nullifier a vote already?
CastSelectExisting(c) ==
  /\ cast[c].pc = "select"
  /\ LET existingVoteResult == SelectVotes(votes, cast[c].pollId, cast[c].nullifier)
     IN  cast' = [cast EXCEPT ![c] =
                    IF existingVoteResult # {}
                      THEN [@ EXCEPT !.pc = "update",
                                     !.previousVoteId =
                                        (CHOOSE v \in existingVoteResult : TRUE).id]
                      ELSE [@ EXCEPT !.pc = "insert"]]
  /\ UNCHANGED <<polls, now, votes, nextVoteId, latest, raced, reader, auditVars, verifierVars, consultVars, ideaVoteVars, derived>>

\* the row an INSERT INTO votes of call c creates (RETURNING ...)
NewVote(c) ==
  [id |-> nextVoteId, poll_id |-> cast[c].pollId, nullifier |-> cast[c].nullifier,
   option_id |-> cast[c].optionId, previous_vote_id |-> cast[c].previousVoteId]

\* INSERT INTO votes: a unique violation makes db.query throw
InsertVote(c, onSuccess) ==
  /\ latest' = [latest EXCEPT ![cast[c].nullifier] = cast[c].optionId]
  /\ IF UniqueViolation(votes, cast[c].pollId, cast[c].nullifier)
       THEN /\ cast' = [cast EXCEPT ![c] =
                          Return(@, Failure("duplicate key value violates unique constraint"))]
            /\ UNCHANGED <<votes, nextVoteId>>
       ELSE /\ votes' = votes \cup {NewVote(c)}
            /\ nextVoteId' = nextVoteId + 1
            /\ cast' = [cast EXCEPT ![c] = onSuccess]

\* lines 102-119: first vote of the nullifier
CastInsert(c) ==
  /\ cast[c].pc = "insert"
  /\ InsertVote(c, Return(cast[c], [success |-> TRUE, error |-> NULL, vote |-> NewVote(c)]))
  /\ UNCHANGED <<polls, now, raced, reader, auditVars, verifierVars, consultVars, ideaVoteVars, derived>>

\* lines 86-100 and 114-119: the nullifier has a vote; INSERT the new row, then
\* DELETE the old one.  Two statements, hence two steps of this action.
CastUpdate(c) ==
  /\ cast[c].pc \in {"update", "delete"}
  /\ IF cast[c].pc = "update"
       THEN InsertVote(c, [cast[c] EXCEPT !.pc = "delete", !.response.vote = NewVote(c)])
       ELSE /\ votes' = DeleteVote(votes, cast[c].previousVoteId)
            /\ cast' = [cast EXCEPT ![c] =
                          Return(@, [success |-> TRUE, error |-> NULL,
                                     vote |-> cast[c].response.vote])]
            /\ UNCHANGED <<nextVoteId, latest>>
  /\ UNCHANGED <<polls, now, raced, reader, auditVars, verifierVars, consultVars, ideaVoteVars, derived>>

(* ------------------- GET /:pollId/results, /export, /public ------------ *)
NoCount == -1

NoResult == [error |-> NULL, totalVotes |-> NoCount, results |-> <<>>]

IdleReader == [pc |-> "idle", kind |-> NULL, userId |-> NULL, pollId |-> NULL,
               nullifier |-> NULL, options |-> <<>>, status |-> NULL,
               response |-> NoResult]

ResultKinds == {"results", "export", "public"}

\* SELECT option_id, COUNT(*) ... WHERE poll_id = $1 GROUP BY option_id, reduced
\* into voteCounts: a row, hence a key, only for the options that have votes
VoteCounts_AnyOption(rows, pollId) ==
  LET ofPoll == {v \in rows : v.poll_id = pollId}
  IN  [o \in {v.option_id : v \in ofPoll} |-> Cardinality(ofPoll)]

VoteCounts(rows, pollId) ==
  LET ofPoll == {v \in rows : v.poll_id = pollId}
  IN  [o \in {v.option_id : v \in ofPoll} |->
         Cardinality({v \in ofPoll : v.option_id = o})]

RECURSIVE SumCounts(_, _)
\* Object.values(voteCounts).reduce((sum, count) => sum + count, 0)
SumCounts(voteCounts, keys) ==
  IF keys = {} THEN 0
  ELSE LET k == CHOOSE x \in keys : TRUE
       IN  voteCounts[k] + SumCounts(voteCounts, keys \ {k})

\* Math.round((count / totalVotes) * 100 * 100) / 100, in hundredths of a percent
Percentage(count, totalVotes) ==
  IF totalVotes > 0 THEN (2 * count * 10000 + totalVotes) \div (2 * totalVotes) ELSE 0

\* lines 222-248: totalVotes and one entry per option of the poll row read earlier
BuildResults(options, voteCounts) ==
  LET totalVotes == SumCounts(voteCounts, DOMAIN voteCounts)
  IN  [error |-> NULL,
       totalVotes |-> totalVotes,
       results |-> [i \in 1..Len(options) |->
                      LET count == IF options[i].id \in DOMAIN voteCounts
                                     THEN voteCounts[options[i].id] ELSE 0
                      IN  [optionId |-> options[i].id, optionText |-> options[i].text,
                           count |-> count,
                           percentage |-> Percentage(count, totalVotes)]]]

\* the must-have-voted gate: SELECT id FROM votes WHERE poll_id = $1 AND nullifier = $2
HasVotedGate_AnyNullifier(rows, pollId, nullifier) ==
  {v \in rows : v.poll_id = pollId} # {}

HasVotedGate(rows, pollId, nullifier) == SelectVotes(rows, pollId, nullifier) # {}

\* the closed-poll gate of /results/public
PublicGate_NotDraft(status) == status # "draft"

PublicGate(status) == status = "closed"

Refuse(message) == [NoResult EXCEPT !.error = message]

\* the poll row is read (and, for /results and /export, the caller's salt); the
\* public route checks the status it has read
ResultsReadPoll(kind, userId, pollId) ==
  /\ reader.pc \in {"idle", "done"}
  /\ LET poll == polls[pollId]
         r == [IdleReader EXCEPT !.kind = kind, !.pollId = pollId,
                                 !.options = poll.options]
     IN  reader' =
           IF kind = "public"
             THEN IF PublicGate(poll.status)
                    THEN [r EXCEPT !.pc = "count", !.status = poll.status]
                    ELSE [r EXCEPT !.pc = "done", !.status = poll.status,
                                   !.response =
                                      Refuse("Results are only public after poll is closed")]
             ELSE [r EXCEPT !.pc = "gate", !.userId = userId,
                            !.nullifier = generateNullifier(pollId, secret_salt[userId])]
  /\ UNCHANGED <<polls, now, votes, nextVoteId, cast, latest, raced, auditVars, verifierVars, consultVars, ideaVoteVars, derived>>

\* /results lines 204-211, /export lines 295-302
ResultsGate ==
  /\ reader.pc = "gate"
  /\ reader' =
       IF HasVotedGate(votes, reader.pollId, reader.nullifier)
         THEN [reader EXCEPT !.pc = "count"]
         ELSE [reader EXCEPT !.pc = "done",
                             !.response = Refuse("You must vote before viewing results")]
  /\ UNCHANGED <<polls, now, votes, nextVoteId, cast, latest, raced, auditVars, verifierVars, consultVars, ideaVoteVars, derived>>

\* the count query and the response
ResultsCount ==
  /\ reader.pc = "count"
  /\ reader' = [reader EXCEPT !.pc = "done",
                              !.response = BuildResults(reader.options,
                                                        VoteCounts(votes, reader.pollId))]
  /\ UNCHANGED <<polls, now, votes, nextVoteId, cast, latest, raced, auditVars, verifierVars, consultVars, ideaVoteVars, derived>>

(* ------------------ POST /moderation/comments/:commentId/hide ---------- *)
IdleHide == [pc |-> "idle", userId |-> NULL, tenantId |-> NULL, commentId |-> NULL,
             response |-> NULL]

HideInFlight(h) == hide[h].pc \notin {"idle", "done"}

\* the row of INSERT INTO audit_events (tenant_id, user_id, event_type,
\* target_type, target_id, payload, payload_hash): previous_event_hash is not
\* among the columns and takes its default, NULL
AuditRow(h, events) ==
  [tenant_id |-> hide[h].tenantId,
   user_id |-> hide[h].userId,
   event_type |-> "comment_hidden",
   target_type |-> "comment",
   target_id |-> hide[h].commentId,
   payload |-> JSONstringify(<<Member("action", "hide"), Member("moderatorId", hide[h].userId)>>),
   payload_hash |->
     sha256(JSONstringify(<<Member("commentId", hide[h].commentId), Member("action", "hide")>>)),
   previous_event_hash |-> NULL]

\* lines 111-132: the comment must belong to the moderator's tenant; hide it
HideComment(h, userId, commentId) ==
  /\ hide[h].pc = "idle"
  /\ IF h = 1 THEN TRUE ELSE hide[h - 1].pc # "idle"
  /\ IF CommentTenant[commentId] # ModeratorTenant[userId]
       THEN /\ hide' = [hide EXCEPT ![h] =
                          [IdleHide EXCEPT !.pc = "done", !.response = "Comment not found"]]
            /\ UNCHANGED is_hidden
       ELSE /\ is_hidden' = [is_hidden EXCEPT ![commentId] = TRUE]
            /\ hide' = [hide EXCEPT ![h] =
                          [pc |-> "log", userId |-> userId,
                           tenantId |-> ModeratorTenant[userId],
                           commentId |-> commentId, response |-> NULL]]
  /\ UNCHANGED <<polls, now, votes, nextVoteId, cast, latest, raced, reader,
                 audit_events, appendLog, verifierVars, consultVars, ideaVoteVars, derived>>

\* lines 134-149: log the moderation action, then answer.  db.query rejects when
\* the database refuses the statement (the audit_events table of
\* 001_initial_schema.sql has no user_id, target_type or target_id column; a
\* database whose table has them accepts it), and the handler passes the error on.
HideLog(h, accepted) ==
  /\ hide[h].pc = "log"
  /\ IF accepted
       THEN /\ audit_events' = Append(audit_events, AuditRow(h, audit_events))
            /\ appendLog' = Append(appendLog,
                                   [by |-> h,
                                    during |-> {g \in Hides \ {h} : HideInFlight(g)}])
            /\ hide' = [hide EXCEPT ![h] =
                          [IdleHide EXCEPT !.pc = "done", !.response = "success"]]
       ELSE /\ hide' = [hide EXCEPT ![h] =
                          [IdleHide EXCEPT !.pc = "done", !.response = "error"]]
            /\ UNCHANGED <<audit_events, appendLog>>
  /\ UNCHANGED <<polls, now, votes, nextVoteId, cast, latest, raced, reader, is_hidden,
                 verifierVars, consultVars, ideaVoteVars, derived>>

\* POST /moderation/comments/:commentId/unhide, lines 166-189: no audit row
UnhideComment(userId, commentId) ==
  /\ CommentTenant[commentId] = ModeratorTenant[userId]
  /\ is_hidden[commentId]
  /\ is_hidden' = [is_hidden EXCEPT ![commentId] = FALSE]
  /\ UNCHANGED <<polls, now, votes, nextVoteId, cast, latest, raced, reader,
                 audit_events, hide, appendLog, verifierVars, consultVars, ideaVoteVars, derived>>

(* ----------------------- audit bundle and verifiers -------------------- *)
\* payloads of audit events: the same members in two insertion orders, at the
\* top level and one level down
Payloads ==
  { <<Member("a", "1"), Member("b", "2")>>,
    <<Member("b", "2"), Member("a", "1")>>,
    <<ObjectMember("b", <<Member("a", "1"), Member("b", "2")>>)>>,
    <<ObjectMember("b", <<Member("b", "2"), Member("a", "1")>>)>> }

NoVerdict ==
  [platform |-> [ran |-> FALSE, valid |-> FALSE, eventsChecked |-> 0],
   standalone |-> [ran |-> FALSE, valid |-> FALSE, errors |-> <<>>,
                   totalEvents |-> 0, validHashes |-> 0, validLinks |-> 0]]

\* the rows behind the events of a bundle (the export renames the columns)
Rows(events) ==
  [i \in 1..Len(events) |->
     [payload_hash |-> events[i].payloadHash,
      previous_event_hash |-> events[i].previousEventHash]]

\* an event is appended to the log: its payload hash, and the chain hash of the
\* event before it (none for the first)
AppendEvent(payload) ==
  /\ Len(bundle) < MaxEvents
  /\ tampers = 0
  /\ LET payloadHash == generateHash(payload)
         previousHash ==
           IF Len(bundle) > 0
             THEN generateChainHash(bundle[Len(bundle)].payloadHash,
                                    bundle[Len(bundle)].previousEventHash)
             ELSE NULL
     IN  bundle' = Append(bundle, [payload |-> payload, payloadHash |-> payloadHash,
                                   previousEventHash |-> previousHash])
  /\ pristine' = bundle'
  /\ verdict' = NoVerdict
  /\ UNCHANGED <<polls, now, votes, nextVoteId, cast, latest, raced, reader, auditVars,
                 consultVars, ideaVoteVars, tampers, derived>>

\* the values a forger may write into the payloadHash of event k: a digest of
\* nothing, or a digest recomputed from the event's payload
ForgedPayloadHashes(k) ==
  {"wrong-hash"}
    \cup (IF k \in 1..Len(bundle)
            THEN {generateHash(bundle[k].payload), computePayloadHash(bundle[k].payload)}
            ELSE {})

\* the values a forger may write into the previousEventHash of event k: none, a
\* digest of nothing, the payload hash of the event before, or its chain hash
ForgedPreviousHashes(k) ==
  {NULL, "wrong-hash"}
    \cup (IF k \in 2..Len(bundle)
            THEN {bundle[k - 1].payloadHash,
                  generateChainHash(bundle[k - 1].payloadHash,
                                    bundle[k - 1].previousEventHash)}
            ELSE {})

\* one field of one event of the bundle is changed in place
Tamper(k, field, value) ==
  /\ tampers < MaxTampers
  /\ k \in 1..Len(bundle)
  /\ bundle[k][field] # value
  /\ bundle' = [bundle EXCEPT ![k][field] = value]
  /\ tampers' = tampers + 1
  /\ verdict' = NoVerdict
  /\ UNCHANGED <<polls, now, votes, nextVoteId, cast, latest, raced, reader, auditVars,
                 consultVars, ideaVoteVars, pristine, derived>>

\* the changed fields get their original values back
Restore ==
  /\ tampers > 0
  /\ bundle' = pristine
  /\ tampers' = 0
  /\ verdict' = NoVerdict
  /\ UNCHANGED <<polls, now, votes, nextVoteId, cast, latest, raced, reader, auditVars,
                 consultVars, ideaVoteVars, pristine, derived>>

\* GET /audit/verify: the chain of the payload_hash and previous_event_hash columns
AuditVerify ==
  /\ ~verdict.platform.ran
  /\ verdict' = [verdict EXCEPT !.platform =
                   [ran |-> TRUE,
                    valid |-> IF Len(bundle) = 0 THEN TRUE
                              ELSE verifyHashChain(Rows(bundle)),
                    eventsChecked |-> Len(bundle)]]
  /\ UNCHANGED <<polls, now, votes, nextVoteId, cast, latest, raced, reader, auditVars,
                 consultVars, ideaVoteVars, bundle, pristine, tampers, derived>>

RECURSIVE verifyEvents(_, _)
\* the loop of the standalone verifier from event i on (1-based): the errors it
\* pushes, each with the index its message names
verifyEvents(events, i) ==
  IF i > Len(events) THEN <<>>
  ELSE LET hashError ==
             IF computePayloadHash(events[i].payload) = events[i].payloadHash
               THEN <<>>
               ELSE <<[index |-> i - 1, message |-> "Payload hash mismatch"]>>
           linkError ==
             IF i = 1 THEN <<>>
             ELSE IF events[i].previousEventHash = events[i - 1].payloadHash
               THEN <<>>
               ELSE <<[index |-> i - 1, message |-> "Chain break detected"]>>
       IN  hashError \o linkError \o verifyEvents(events, i + 1)

\* verifyHashChain of the standalone verifier
verifierVerifyHashChain(events) ==
  IF Len(events) = 0
    THEN [ran |-> TRUE, valid |-> TRUE, errors |-> <<>>,
          totalEvents |-> 0, validHashes |-> 0, validLinks |-> 0]
    ELSE LET first ==
               IF events[1].previousEventHash # NULL
                 THEN <<[index |-> 0,
                         message |-> "First event should have null previousEventHash"]>>
                 ELSE <<>>
             errors == first \o verifyEvents(events, 1)
         IN  [ran |-> TRUE, valid |-> Len(errors) = 0, errors |-> errors,
              totalEvents |-> Len(events),
              validHashes |->
                Cardinality({i \in 1..Len(events) :
                               computePayloadHash(events[i].payload) = events[i].payloadHash}),
              validLinks |-> Len(events) - 1]

\* the standalone verifier is run on the bundle
StandaloneVerify ==
  /\ ~verdict.standalone.ran
  /\ verdict' = [verdict EXCEPT !.standalone = verifierVerifyHashChain(bundle)]
  /\ UNCHANGED <<polls, now, votes, nextVoteId, cast, latest, raced, reader, auditVars,
                 consultVars, ideaVoteVars, bundle, pristine, tampers, derived>>

(* ----------------------------- consultations --------------------------- *)
\* consultation_stage, in the order of the enum
Stages == <<"idea_collection", "shortlist_selection", "final_arbitration">>
\* the values the validator lets through as nextStage
NextStages == {"shortlist_selection", "final_arbitration"}
\* polls.creator_id and users.role
PollCreator == [p \in PollIds |-> "u1"]
\* polls.tenant_id
PollTenant == [p \in PollIds |-> "t1"]
UserRole == [u \in UserIds |-> "citizen"]
\* (upvotes, downvotes) of the ideas that exist at the start
IdeaTallies == {<<1, 0>>, <<1, 1>>}
\* min_ideas_for_stage_2 and shortlist_size of the consultations created
MinIdeasChoices == {2}
ShortlistSizes == {1, 2}

Digits == <<"1", "2", "3", "4", "5", "6">>

\* the n-th row of consultation_ideas; created_at is the row's position, the
\* submitter and the description play no part
NewIdea(n, pollId, tally) ==
  [id |-> "i" \o Digits[n], poll_id |-> pollId, title |-> "idea " \o Digits[n],
   upvotes |-> tally[1], downvotes |-> tally[2], status |-> "submitted",
   created_at |-> n]

NoAnswer == [success |-> FALSE, error |-> NULL]

\* peerSucceeded is history: a request for the same poll and the same next stage
\* has answered with success while this one was in progress
IdleTransition ==
  [pc |-> "idle", pollId |-> NULL, nextStage |-> NULL, options |-> <<>>,
   peerSucceeded |-> FALSE, response |-> NoAnswer]

IdleSubmit == [pc |-> "idle", pollId |-> NULL, response |-> NoAnswer]

Transitions == 1..MaxTransitions
Submits == 1..MaxSubmits

TransitionInFlight(c) == transition[c].pc \notin {"idle", "done"}
SubmitInFlight(c) == submit[c].pc \notin {"idle", "done"}

\* the request answers: its locals are gone
TransitionReturn(response) == [IdleTransition EXCEPT !.pc = "done", !.response = response]

Score(idea) == idea.upvotes - idea.downvotes

\* ORDER BY (upvotes - downvotes) DESC, created_at ASC
Before(a, b) ==
  \/ Score(a) > Score(b)
  \/ Score(a) = Score(b) /\ a.created_at < b.created_at

\* SELECT id FROM consultation_ideas WHERE poll_id = $1 ORDER BY ... LIMIT $2
TopIdeas(ideas, pollId, limit) ==
  {i \in 1..Len(ideas) :
     /\ ideas[i].poll_id = pollId
     /\ Cardinality({j \in 1..Len(ideas) :
                       ideas[j].poll_id = pollId /\ Before(ideas[j], ideas[i])}) < limit}

\* any request for shortlist_selection shortlists, whatever the stage
TransitionBranch_AnyStage(currentStage, nextStage) ==
  IF nextStage = "shortlist_selection" THEN "count"
  ELSE IF currentStage = "shortlist_selection" /\ nextStage = "final_arbitration"
    THEN "shortlisted"
  ELSE "invalid"

\* the branch of lines 481, 514 and 534: where the handler goes next
TransitionBranch(currentStage, nextStage) ==
  IF currentStage = "idea_collection" /\ nextStage = "shortlist_selection" THEN "count"
  ELSE IF currentStage = "shortlist_selection" /\ nextStage = "final_arbitration"
    THEN "shortlisted"
  ELSE "invalid"

\* the threshold is met only above min_ideas_for_stage_2
TooFewIdeas_Inclusive(ideasCount, minIdeas) == ideasCount <= minIdeas

\* line 489
TooFewIdeas(ideasCount, minIdeas) == ideasCount < minIdeas

\* lines 444-479 and the branch of 481, 514 and 534: the caller must be the
\* creator or an official; the stage row is read and the transition validated
TransitionBegin(c, userId, pollId, nextStage) ==
  /\ transition[c].pc = "idle"
  /\ IF c = 1 THEN TRUE ELSE transition[c - 1].pc # "idle"
  /\ LET isCreator == PollCreator[pollId] = userId
         isOfficial == UserRole[userId] \in {"elected_official", "administration"}
         currentStage == consultation_stages[pollId].current_stage
         call == [IdleTransition EXCEPT !.pollId = pollId, !.nextStage = nextStage]
     IN  transition' =
           [transition EXCEPT ![c] =
              IF ~isCreator /\ ~isOfficial
                THEN TransitionReturn(
                       [success |-> FALSE,
                        error |-> "Only poll creator or officials can transition stages"])
              ELSE IF TransitionBranch(currentStage, nextStage) = "invalid"
                THEN TransitionReturn(
                       [success |-> FALSE, error |-> "Invalid stage transition"])
              ELSE [call EXCEPT !.pc = TransitionBranch(currentStage, nextStage)]]
  /\ UNCHANGED <<polls, now, votes, nextVoteId, cast, latest, raced, reader, auditVars,
                 verifierVars, ideaVoteVars, consultation_stages, consultation_ideas, submit,
                 shortlistings, derived>>

\* lines 482-493: SELECT COUNT(*) of the poll's ideas against min_ideas_for_stage_2
TransitionCount(c) ==
  /\ transition[c].pc = "count"
  /\ LET pollId == transition[c].pollId
         ideasCount == Cardinality({i \in 1..Len(consultation_ideas) :
                                      consultation_ideas[i].poll_id = pollId})
     IN  transition' =
           [transition EXCEPT ![c] =
              IF TooFewIdeas(ideasCount, consultation_stages[pollId].min_ideas_for_stage_2)
                THEN TransitionReturn(
                       [success |-> FALSE, error |-> "Cannot transition to Stage 2"])
                ELSE [@ EXCEPT !.pc = "shortlist"]]
  /\ UNCHANGED <<polls, now, votes, nextVoteId, cast, latest, raced, reader, auditVars,
                 verifierVars, ideaVoteVars, consultation_stages, consultation_ideas, submit,
                 shortlistings, derived>>

\* lines 495-506: the top shortlist_size ideas become shortlisted
TransitionShortlist(c) ==
  /\ transition[c].pc = "shortlist"
  /\ LET pollId == transition[c].pollId
         top == TopIdeas(consultation_ideas, pollId,
                         consultation_stages[pollId].shortlist_size)
     IN  /\ consultation_ideas' =
               [i \in 1..Len(consultation_ideas) |->
                  IF i \in top
                    THEN [consultation_ideas[i] EXCEPT !.status = "shortlisted"]
                    ELSE consultation_ideas[i]]
         /\ shortlistings' = [shortlistings EXCEPT ![pollId] = @ + 1]
  /\ transition' = [transition EXCEPT ![c].pc = "reject"]
  /\ UNCHANGED <<polls, now, votes, nextVoteId, cast, latest, raced, reader, auditVars,
                 verifierVars, ideaVoteVars, consultation_stages, submit, derived>>

\* lines 508-514: the ideas still submitted become rejected
TransitionReject(c) ==
  /\ transition[c].pc = "reject"
  /\ consultation_ideas' =
       [i \in 1..Len(consultation_ideas) |->
          IF /\ consultation_ideas[i].poll_id = transition[c].pollId
             /\ consultation_ideas[i].status = "submitted"
            THEN [consultation_ideas[i] EXCEPT !.status = "rejected"]
            ELSE consultation_ideas[i]]
  /\ transition' = [transition EXCEPT ![c].pc = "stage"]
  /\ UNCHANGED <<polls, now, votes, nextVoteId, cast, latest, raced, reader, auditVars,
                 verifierVars, ideaVoteVars, consultation_stages, submit, shortlistings, derived>>

\* the orders in which a SELECT ... ORDER BY (upvotes - downvotes) DESC may
\* return the rows S of ideas: rows of equal score come in any order
ByScore(ideas, S) ==
  {order \in [1..Cardinality(S) -> S] :
     /\ \A a, b \in 1..Cardinality(S) : a # b => order[a] # order[b]
     /\ \A a, b \in 1..Cardinality(S) :
          a < b => Score(ideas[order[a]]) >= Score(ideas[order[b]])}

\* lines 516-527: the shortlisted ideas are read and mapped to options
TransitionReadShortlisted(c) ==
  /\ transition[c].pc = "shortlisted"
  /\ LET S == {i \in 1..Len(consultation_ideas) :
                 /\ consultation_ideas[i].poll_id = transition[c].pollId
                 /\ consultation_ideas[i].status = "shortlisted"}
     IN  \E order \in ByScore(consultation_ideas, S) :
           transition' =
             [transition EXCEPT ![c].pc = "options",
                                ![c].options =
                                  [k \in 1..Cardinality(S) |->
                                     [id |-> consultation_ideas[order[k]].id,
                                      text |-> consultation_ideas[order[k]].title]]]
  /\ UNCHANGED <<polls, now, votes, nextVoteId, cast, latest, raced, reader, auditVars,
                 verifierVars, ideaVoteVars, consultation_stages, consultation_ideas, submit,
                 shortlistings, derived>>

\* lines 529-533: UPDATE polls SET options
TransitionSetOptions(c) ==
  /\ transition[c].pc = "options"
  /\ polls' = [polls EXCEPT ![transition[c].pollId].options = transition[c].options]
  /\ transition' = [transition EXCEPT ![c].pc = "stage"]
  /\ UNCHANGED <<now, votes, nextVoteId, cast, latest, raced, reader, auditVars,
                 verifierVars, ideaVoteVars, consultation_stages, consultation_ideas, submit,
                 shortlistings, derived>>

\* lines 538-544: UPDATE consultation_stages SET current_stage, and the answer
TransitionSetStage(c) ==
  /\ transition[c].pc = "stage"
  /\ consultation_stages' =
       [consultation_stages EXCEPT ![transition[c].pollId].current_stage =
                                     transition[c].nextStage]
  /\ transition' =
       [d \in Transitions |->
          IF d = c THEN TransitionReturn([success |-> TRUE, error |-> NULL])
          ELSE IF /\ TransitionInFlight(d)
                  /\ transition[d].pollId = transition[c].pollId
                  /\ transition[d].nextStage = transition[c].nextStage
            THEN [transition[d] EXCEPT !.peerSucceeded = TRUE]
            ELSE transition[d]]
  /\ UNCHANGED <<polls, now, votes, nextVoteId, cast, latest, raced, reader, auditVars,
                 verifierVars, ideaVoteVars, consultation_ideas, submit, shortlistings, derived>>

\* POST /:pollId/ideas, lines 177-202: the stage row is read; ideas are taken
\* during idea_collection, inside the stage-1 window
SubmitBegin(c, pollId) ==
  /\ submit[c].pc = "idle"
  /\ IF c = 1 THEN TRUE ELSE submit[c - 1].pc # "idle"
  /\ Len(consultation_ideas) + Cardinality({d \in Submits : SubmitInFlight(d)}) < MaxIdeas
  /\ LET stage == consultation_stages[pollId]
         refuse(message) ==
           [IdleSubmit EXCEPT !.pc = "done",
                              !.response = [success |-> FALSE, error |-> message]]
     IN  submit' =
           [submit EXCEPT ![c] =
              IF stage.current_stage # "idea_collection"
                THEN refuse("Idea submission is only allowed during Stage 1 (Idea Collection)")
              ELSE IF stage.stage_1_start # NoTime /\ stage.stage_1_start > now
                THEN refuse("Stage 1 has not started yet")
              ELSE IF stage.stage_1_end # NoTime /\ stage.stage_1_end < now
                THEN refuse("Stage 1 has ended")
              ELSE [IdleSubmit EXCEPT !.pc = "insert", !.pollId = pollId]]
  /\ UNCHANGED <<polls, now, votes, nextVoteId, cast, latest, raced, reader, auditVars,
                 verifierVars, ideaVoteVars, consultation_stages, consultation_ideas, transition,
                 shortlistings, derived>>

\* lines 204-241: INSERT INTO consultation_ideas, and the answer
SubmitInsert(c) ==
  /\ submit[c].pc = "insert"
  /\ consultation_ideas' =
       Append(consultation_ideas,
              NewIdea(Len(consultation_ideas) + 1, submit[c].pollId, <<0, 0>>))
  /\ submit' = [submit EXCEPT ![c] =
                  [IdleSubmit EXCEPT !.pc = "done",
                                     !.response = [success |-> TRUE, error |-> NULL]]]
  /\ UNCHANGED <<polls, now, votes, nextVoteId, cast, latest, raced, reader, auditVars,
                 verifierVars, ideaVoteVars, consultation_stages, transition, shortlistings, derived>>

(* --------------------- POST /:pollId/ideas/:ideaId/vote ---------------- *)
IdeaVotes == 1..MaxIdeaVotes
VoteTypes == {"upvote", "downvote"}
\* the ids a request may name: the ideas that can exist
IdeaIds == {"i" \o Digits[n] : n \in 1..MaxIdeas}

\* a row of consultation_idea_votes
IdeaVoteRow(id, ideaId, userId, voteType) ==
  [id |-> id, idea_id |-> ideaId, user_id |-> userId, vote_type |-> voteType]

\* the votes behind the tallies of the ideas that exist at the start: the
\* upvote is u1's, the downvote is u2's
TallyVotes(ideas) ==
  {IdeaVoteRow("v-" \o ideas[i].id \o "-u1", ideas[i].id, "u1", "upvote") :
     i \in {j \in 1..Len(ideas) : ideas[j].upvotes = 1}}
  \cup
  {IdeaVoteRow("v-" \o ideas[i].id \o "-u2", ideas[i].id, "u2", "downvote") :
     i \in {j \in 1..Len(ideas) : ideas[j].downvotes = 1}}

\* before and alone are history: the caller's vote on the idea and the idea's
\* counters when the request began, and whether no other idea-vote request has
\* been in progress at any moment of this one
NoBefore == [vote |-> NULL, upvotes |-> 0, downvotes |-> 0]

IdleIdeaVote ==
  [pc |-> "idle", userId |-> NULL, ideaId |-> NULL, voteType |-> NULL,
   existing |-> <<>>, before |-> NoBefore, alone |-> TRUE, response |-> NoAnswer]

IdeaVoteInFlight(c) == ideaVote[c].pc \notin {"idle", "done"}

\* the request answers: its locals are gone
IdeaVoteReturn(response) == [IdleIdeaVote EXCEPT !.pc = "done", !.response = response]

\* the counter of a vote type named by its neighbour
IdeaVoteField_Swapped(voteType) == IF voteType = "upvote" THEN "downvotes" ELSE "upvotes"

\* lines 381, 394-395 and 409: the counter of a vote type
IdeaVoteField(voteType) == IF voteType = "upvote" THEN "upvotes" ELSE "downvotes"

\* SELECT id, vote_type FROM consultation_idea_votes WHERE idea_id = $1 AND user_id = $2
SelectIdeaVotes(rows, ideaId, userId) ==
  {r \in rows : r.idea_id = ideaId /\ r.user_id = userId}

\* the index of the idea with this id, 0 when there is none
IdeaIndex(ideas, ideaId) ==
  IF \E i \in 1..Len(ideas) : ideas[i].id = ideaId
    THEN CHOOSE i \in 1..Len(ideas) : ideas[i].id = ideaId
    ELSE 0

\* lines 346-367: the idea must exist in the poll; the caller's vote on it is
\* read.  BEGIN goes through the pool like every statement of the handler: it
\* opens no transaction around them.
IdeaVoteBegin(c, userId, pollId, ideaId, voteType) ==
  /\ ideaVote[c].pc = "idle"
  /\ IF c = 1 THEN TRUE ELSE ideaVote[c - 1].pc # "idle"
  /\ LET k == IdeaIndex(consultation_ideas, ideaId)
         found == SelectIdeaVotes(consultation_idea_votes, ideaId, userId)
         others == {d \in IdeaVotes : IdeaVoteInFlight(d)}
     IN  ideaVote' =
           [d \in IdeaVotes |->
              IF d = c
                THEN IF k = 0 \/ consultation_ideas[IF k = 0 THEN 1 ELSE k].poll_id # pollId
                       THEN IdeaVoteReturn([success |-> FALSE, error |-> "Idea not found"])
                       ELSE [IdleIdeaVote EXCEPT
                               !.pc = "row", !.userId = userId, !.ideaId = ideaId,
                               !.voteType = voteType,
                               !.existing =
                                 IF found = {} THEN <<>>
                                 ELSE <<CHOOSE r \in found : TRUE>>,
                               !.before =
                                 [vote |-> IF found = {} THEN NULL
                                           ELSE (CHOOSE r \in found : TRUE).vote_type,
                                  upvotes |-> consultation_ideas[k].upvotes,
                                  downvotes |-> consultation_ideas[k].downvotes],
                               !.alone = (others = {})]
              ELSE IF d \in others THEN [ideaVote[d] EXCEPT !.alone = FALSE]
              ELSE ideaVote[d]]
  /\ UNCHANGED <<polls, now, votes, nextVoteId, cast, latest, raced, reader, auditVars,
                 verifierVars, consultVars, consultation_idea_votes, derived>>

\* lines 370-378, 386-391 and 400-406: the caller's vote row is deleted, changed
\* or inserted; a second row for (idea_id, user_id) is refused by the table and
\* the error is passed on (lines 418-421)
IdeaVoteWrite(c) ==
  /\ ideaVote[c].pc = "row"
  /\ LET r == ideaVote[c]
         taken == SelectIdeaVotes(consultation_idea_votes, r.ideaId, r.userId) # {}
     IN  IF r.existing # <<>> /\ r.existing[1].vote_type = r.voteType
           THEN /\ consultation_idea_votes' =
                     {v \in consultation_idea_votes : v.id # r.existing[1].id}
                /\ ideaVote' = [ideaVote EXCEPT ![c].pc = "count"]
         ELSE IF r.existing # <<>>
           THEN /\ consultation_idea_votes' =
                     {IF v.id = r.existing[1].id
                        THEN [v EXCEPT !.vote_type = r.voteType] ELSE v :
                      v \in consultation_idea_votes}
                /\ ideaVote' = [ideaVote EXCEPT ![c].pc = "count"]
         ELSE IF taken
           THEN /\ ideaVote' =
                     [ideaVote EXCEPT ![c] =
                        IdeaVoteReturn([success |-> FALSE,
                                        error |-> "duplicate key value"])]
                /\ UNCHANGED consultation_idea_votes
         ELSE /\ consultation_idea_votes' =
                   consultation_idea_votes \cup
                     {IdeaVoteRow("r" \o Digits[c], r.ideaId, r.userId, r.voteType)}
              /\ ideaVote' = [ideaVote EXCEPT ![c].pc = "count"]
  /\ UNCHANGED <<polls, now, votes, nextVoteId, cast, latest, raced, reader, auditVars,
                 verifierVars, consultVars, derived>>

\* UPDATE consultation_ideas SET field = field + delta WHERE id = $1
AddToCounter(ideas, ideaId, field, delta) ==
  [i \in 1..Len(ideas) |->
     IF ideas[i].id # ideaId THEN ideas[i]
     ELSE IF field = "upvotes" THEN [ideas[i] EXCEPT !.upvotes = @ + delta]
     ELSE [ideas[i] EXCEPT !.downvotes = @ + delta]]

\* lines 380-385, 393-399 and 408-418: the idea's counters follow the vote row,
\* COMMIT, and the answer
IdeaVoteCount(c) ==
  /\ ideaVote[c].pc = "count"
  /\ LET r == ideaVote[c]
     IN  consultation_ideas' =
           IF r.existing # <<>> /\ r.existing[1].vote_type = r.voteType
             THEN AddToCounter(consultation_ideas, r.ideaId, IdeaVoteField(r.voteType), -1)
           ELSE IF r.existing # <<>>
             THEN AddToCounter(
                    AddToCounter(consultation_ideas, r.ideaId,
                                 IdeaVoteField(r.existing[1].vote_type), -1),
                    r.ideaId, IdeaVoteField(r.voteType), 1)
           ELSE AddToCounter(consultation_ideas, r.ideaId, IdeaVoteField(r.voteType), 1)
  /\ ideaVote' = [ideaVote EXCEPT ![c] = IdeaVoteReturn([success |-> TRUE, error |-> NULL])]
  /\ UNCHANGED <<polls, now, votes, nextVoteId, cast, latest, raced, reader, auditVars,
                 verifierVars, consultation_stages, transition, submit, shortlistings,
                 consultation_idea_votes, derived>>

(* ---------------------------- generateNullifier ------------------------ *)
\* arguments of generateNullifier: strings, as in the package's tests
DerivePollIds == {"p1", "p2", "p1:a", "poll-123"}
DeriveSecrets == {"s1", "s2", "a:s1", "abc123"}

\* a call of generateNullifier(pollId, userSecretSalt) and its result
DeriveNullifier(pollId, userSecretSalt) ==
  /\ Cardinality(derived) < MaxDerived
  /\ derived' = derived \cup
       {[pollId |-> pollId, userSecretSalt |-> userSecretSalt,
         nullifier |-> generateNullifier(pollId, userSecretSalt)]}
  /\ derived' # derived
  /\ UNCHANGED <<polls, now, votes, nextVoteId, cast, latest, raced, reader, auditVars,
                 verifierVars, consultVars, ideaVoteVars>>

(* ------------------------------ PUT /polls/:id ------------------------- *)
\* The creator updates status and/or the time window; "keep" leaves a field
\* out of the request body.  At least one field must be present.
UpdatePoll(pollId, status, startTime, endTime) ==
  /\ status # "keep" \/ startTime # NoTime \/ endTime # NoTime
  /\ polls' = [polls EXCEPT ![pollId] =
                 [@ EXCEPT !.status = IF status = "keep" THEN @ ELSE status,
                           !.start_time = IF startTime = NoTime THEN @ ELSE startTime,
                           !.end_time = IF endTime = NoTime THEN @ ELSE endTime]]
  /\ polls' # polls
  /\ UNCHANGED <<now, votes, nextVoteId, cast, latest, raced, reader, auditVars, verifierVars, consultVars, ideaVoteVars, derived>>

\* time passes
Tick ==
  /\ now < MaxTime
  /\ now' = now + 1
  /\ UNCHANGED <<polls, votes, nextVoteId, cast, latest, raced, reader, auditVars, verifierVars, consultVars, ideaVoteVars, derived>>

(* ----------------------------- specification --------------------------- *)
\* POST /api/polls creates the poll as a draft, with an optional time window
\* the tables and requests of the ledger, the audit trail and the audit bundle
InitBase ==
  /\ polls \in [PollIds -> [status : {"draft"}, start_time : PollTimes \cup {NoTime},
                            end_time : PollTimes \cup {NoTime},
                            options : {InitialOptions}]]
  /\ now = 0
  /\ votes = {}
  /\ nextVoteId = 1
  /\ cast = [c \in Calls |-> IdleCall]
  /\ latest = [n \in Nullifiers |-> NULL]
  /\ raced = {}
  /\ reader = IdleReader
  /\ is_hidden = [k \in CommentIds |-> FALSE]
  /\ audit_events = <<>>
  /\ hide = [h \in Hides |-> IdleHide]
  /\ appendLog = <<>>
  /\ bundle = <<>>
  /\ pristine = <<>>
  /\ tampers = 0
  /\ verdict = NoVerdict
  /\ transition = [c \in Transitions |-> IdleTransition]
  /\ submit = [c \in Submits |-> IdleSubmit]
  /\ shortlistings = [p \in PollIds |-> 0]
  /\ ideaVote = [c \in IdeaVotes |-> IdleIdeaVote]
  /\ derived = {}

\* a poll that is not a consultation
Init ==
  /\ InitBase
  /\ consultation_stages = [p \in {} |-> NULL]
  /\ consultation_ideas = <<>>
  /\ consultation_idea_votes = {}

CastVote ==
  \/ \E c \in Calls, u \in UserIds, p \in PollIds, o \in RequestOptionIds :
       CastBegin(c, u, p, o)
  \/ \E c \in Calls : CastSelectExisting(c)
  \/ \E c \in Calls : CastInsert(c)
  \/ \E c \in Calls : CastUpdate(c)

\* the vote ledger: votes are cast while the creator edits the poll and time passes
Next ==
  \/ CastVote
  \/ \E p \in PollIds, s \in PollStatus \cup {"keep"},
        st \in PollTimes \cup {NoTime}, et \in PollTimes \cup {NoTime} :
       UpdatePoll(p, s, st, et)
  \/ Tick

Spec == Init /\ [][Next]_vars

\* the results routes: a poll without a time window; votes are cast and results
\* are read while the creator changes the poll's status
InitResults ==
  /\ Init
  /\ \A p \in PollIds : polls[p].start_time = NoTime /\ polls[p].end_time = NoTime

NextResults ==
  \/ CastVote
  \/ \E p \in PollIds, s \in PollStatus : UpdatePoll(p, s, NoTime, NoTime)
  \/ \E k \in ResultKinds, u \in UserIds, p \in PollIds : ResultsReadPoll(k, u, p)
  \/ ResultsGate
  \/ ResultsCount

SpecResults == InitResults /\ [][NextResults]_vars

\* the audit trail: moderators hide and unhide comments
NextAudit ==
  \/ \E h \in Hides, u \in ModeratorIds, k \in CommentIds : HideComment(h, u, k)
  \/ \E h \in Hides, accepted \in BOOLEAN : HideLog(h, accepted)
  \/ \E u \in ModeratorIds, k \in CommentIds : UnhideComment(u, k)

SpecAudit == InitResults /\ [][NextAudit]_vars

\* the audit bundle: events are appended, the exported bundle is changed in place
\* and restored, and both verifiers are run on it
NextVerifier ==
  \/ \E p \in Payloads : AppendEvent(p)
  \/ \E k \in 1..MaxEvents, p \in Payloads : Tamper(k, "payload", p)
  \/ \E k \in 1..MaxEvents : \E h \in ForgedPayloadHashes(k) : Tamper(k, "payloadHash", h)
  \/ \E k \in 1..MaxEvents : \E h \in ForgedPreviousHashes(k) :
       Tamper(k, "previousEventHash", h)
  \/ Restore
  \/ AuditVerify
  \/ StandaloneVerify

SpecVerifier == InitResults /\ [][NextVerifier]_vars

\* a consultation in its first stage, with some ideas already submitted and voted on
InitConsult ==
  /\ InitBase
  /\ \A p \in PollIds : polls[p].start_time = NoTime /\ polls[p].end_time = NoTime
  /\ consultation_stages \in
       [PollIds -> [current_stage : {"idea_collection"},
                    stage_1_start : {0}, stage_1_end : {MaxTime},
                    min_ideas_for_stage_2 : MinIdeasChoices,
                    shortlist_size : ShortlistSizes]]
  /\ \E n \in 1..(MaxIdeas - 1) : \E tallies \in [1..n -> IdeaTallies] :
       consultation_ideas = [i \in 1..n |-> NewIdea(i, "p1", tallies[i])]
  /\ consultation_idea_votes = TallyVotes(consultation_ideas)

\* the consultation: ideas are submitted while stage transitions are requested
NextConsult ==
  \/ \E c \in Transitions, u \in UserIds, p \in PollIds, n \in NextStages :
       TransitionBegin(c, u, p, n)
  \/ \E c \in Transitions : TransitionCount(c)
  \/ \E c \in Transitions : TransitionShortlist(c)
  \/ \E c \in Transitions : TransitionReject(c)
  \/ \E c \in Transitions : TransitionReadShortlisted(c)
  \/ \E c \in Transitions : TransitionSetOptions(c)
  \/ \E c \in Transitions : TransitionSetStage(c)
  \/ \E c \in Submits, p \in PollIds : SubmitBegin(c, p)
  \/ \E c \in Submits : SubmitInsert(c)

SpecConsult == InitConsult /\ [][NextConsult]_vars

VoteOnIdea(requests) ==
  \/ \E c \in requests, u \in UserIds, p \in PollIds, i \in IdeaIds, t \in VoteTypes :
       IdeaVoteBegin(c, u, p, i, t)
  \/ \E c \in requests : IdeaVoteWrite(c)
  \/ \E c \in requests : IdeaVoteCount(c)

\* the idea votes: users vote on the ideas of a consultation
NextIdeaVotes == VoteOnIdea(IdeaVotes)

SpecIdeaVotes == InitConsult /\ [][NextIdeaVotes]_vars

\* the deliberation: ideas are voted on while stage transitions are requested
NextDeliberation ==
  \/ \E c \in Transitions, u \in UserIds, p \in PollIds, n \in NextStages :
       TransitionBegin(c, u, p, n)
  \/ \E c \in Transitions : TransitionCount(c)
  \/ \E c \in Transitions : TransitionShortlist(c)
  \/ \E c \in Transitions : TransitionReject(c)
  \/ \E c \in Transitions : TransitionReadShortlisted(c)
  \/ \E c \in Transitions : TransitionSetOptions(c)
  \/ \E c \in Transitions : TransitionSetStage(c)
  \/ VoteOnIdea(1..MaxVotesInTransition)

SpecDeliberation == InitConsult /\ [][NextDeliberation]_vars

\* the nullifier derivation: generateNullifier is called on pairs of strings
NextNullifier == \E p \in DerivePollIds, s \in DeriveSecrets : DeriveNullifier(p, s)

SpecNullifier == InitResults /\ [][NextNullifier]_vars

\* the ideas once the shortlisting and rejecting UPDATEs have run on them
AfterShortlisting(ideas, pollId, size) ==
  [i \in 1..Len(ideas) |->
     [ideas[i] EXCEPT !.status = IF i \in TopIdeas(ideas, pollId, size)
                                   THEN "shortlisted" ELSE "rejected"]]

\* a consultation that has reached shortlist_selection, on a poll without a time
\* window
InitArbitration ==
  /\ InitBase
  /\ \A p \in PollIds : polls[p].start_time = NoTime /\ polls[p].end_time = NoTime
  /\ consultation_stages \in
       [PollIds -> [current_stage : {"shortlist_selection"},
                    stage_1_start : {0}, stage_1_end : {MaxTime},
                    min_ideas_for_stage_2 : MinIdeasChoices,
                    shortlist_size : ShortlistSizes]]
  /\ \E n \in 2..(MaxIdeas - 1) : \E tallies \in [1..n -> IdeaTallies] :
       consultation_ideas =
         AfterShortlisting([i \in 1..n |-> NewIdea(i, "p1", tallies[i])], "p1",
                           consultation_stages["p1"].shortlist_size)
  /\ consultation_idea_votes = TallyVotes(consultation_ideas)

\* the final arbitration: votes are cast and results are read while the creator
\* changes the poll's status and the consultation moves to its last stage
NextArbitration ==
  \/ CastVote
  \/ \E p \in PollIds, s \in PollStatus : UpdatePoll(p, s, NoTime, NoTime)
  \/ \E k \in ResultKinds, u \in UserIds, p \in PollIds : ResultsReadPoll(k, u, p)
  \/ ResultsGate
  \/ ResultsCount
  \/ \E c \in 1..MaxArbitrations, u \in UserIds, p \in PollIds, n \in NextStages :
       TransitionBegin(c, u, p, n)
  \/ \E c \in 1..MaxArbitrations : TransitionReadShortlisted(c)
  \/ \E c \in 1..MaxArbitrations : TransitionSetOptions(c)
  \/ \E c \in 1..MaxArbitrations : TransitionSetStage(c)

SpecArbitration == InitArbitration /\ [][NextArbitration]_vars

(* ------------------------- vote ledger: properties --------------------- *)
\* C1: in every reachable state the votes table holds at most one row for any
\* (poll id, nullifier) pair, whatever the interleaving of the vote requests.
C1_OneVotePerNullifier ==
  \A v \in votes, w \in votes :
    (v.poll_id = w.poll_id /\ v.nullifier = w.nullifier) => v = w

\* a replacement has been attempted: a cast found the nullifier's row, and its
\* INSERT has run against the table that still holds that row
C1_Witness ==
  \E c \in Calls :
    /\ cast[c].pc = "done"
    /\ cast[c].response.error = "duplicate key value violates unique constraint"
    /\ votes # {}

\* C2: once two concurrent casts of one nullifier have both returned, exactly one
\* row exists for the nullifier and it holds the option of the later cast.
C2_LaterCastSupersedes ==
  \A n \in raced :
    (\A c \in Calls : InFlight(c) => cast[c].nullifier # n)
      => \E v \in votes :
           /\ v.nullifier = n
           /\ v.option_id = latest[n]
           /\ \A w \in votes : w.nullifier = n => w = v

CountOf(rows, pollId, optionId) ==
  Cardinality({v \in rows : v.poll_id = pollId /\ v.option_id = optionId})

\* the cast c returns in this step, and no other vote request overlapped with it
ReturnsAlone(c) == InFlight(c) /\ cast[c].alone /\ cast'[c].pc = "done"

\* C3: a cast of O2 that follows a successful cast of O1 by the same nullifier
\* succeeds; O1's count is one lower and O2's one higher than before it, the
\* total is unchanged, and hasVoted reports O2.
C3_UpdateMovesOneVote ==
  [][\A c \in Calls :
       (/\ ReturnsAlone(c)
        /\ \E v \in cast[c].before :
             /\ v.poll_id = cast[c].pollId /\ v.nullifier = cast[c].nullifier
             /\ v.option_id # cast[c].optionId)
       => LET prior == CHOOSE v \in cast[c].before :
                         v.poll_id = cast[c].pollId /\ v.nullifier = cast[c].nullifier
              P == cast[c].pollId
              O1 == prior.option_id
              O2 == cast[c].optionId
          IN  /\ cast'[c].response.success
              /\ CountOf(votes', P, O1) = CountOf(cast[c].before, P, O1) - 1
              /\ CountOf(votes', P, O2) = CountOf(cast[c].before, P, O2) + 1
              /\ Cardinality(votes') = Cardinality(cast[c].before)
              /\ hasVoted(votes', P, cast[c].nullifier) =
                   [hasVoted |-> TRUE, optionId |-> O2]]_vars

\* the precondition of castOrUpdateVote
PollAcceptsVote(poll, t, optionId) ==
  /\ poll.status = "active"
  /\ poll.start_time = NoTime \/ poll.start_time <= t
  /\ poll.end_time = NoTime \/ t <= poll.end_time
  /\ \E i \in 1..Len(poll.options) : poll.options[i].id = optionId

ValidationErrors ==
  {"Poll is not active", "Poll has not started yet", "Poll has ended", "Invalid option ID"}

\* C4: a vote request on a poll that is not active, not started or ended, or for
\* an option the poll does not have, returns an error and leaves the votes table
\* as it was.
C4_RejectedVoteChangesNothing ==
  [][\A c \in Calls, u \in UserIds, p \in PollIds, o \in RequestOptionIds :
       (CastBegin(c, u, p, o) /\ ~PollAcceptsVote(polls[p], now, o))
       => /\ cast'[c].pc = "done"
          /\ ~cast'[c].response.success
          /\ cast'[c].response.error \in ValidationErrors
          /\ cast'[c].response.vote = NoVote
          /\ votes' = votes]_vars

\* a request was refused because the poll had ended, after a vote had been cast
C4_Witness ==
  \E c \in Calls :
    /\ cast[c].pc = "done"
    /\ cast[c].response.error = "Poll has ended"
    /\ votes # {}

\* C5: the response does not tell a first vote from a replacement.  When no
\* other request interferes, a first vote is answered with success and the new
\* row, whose previousVoteId is null (CastInsert); the response to the same
\* request when a prior vote exists must therefore have that same content.
C5_ResponseHidesPriorVote ==
  [][\A c \in Calls :
       ReturnsAlone(c)
       => /\ cast'[c].response.success
          /\ cast'[c].response.vote.poll_id = cast[c].pollId
          /\ cast'[c].response.vote.nullifier = cast[c].nullifier
          /\ cast'[c].response.vote.option_id = cast[c].optionId
          /\ cast'[c].response.vote.previous_vote_id = 0]_vars

(* ---------------------------- results: properties ---------------------- *)
HasCounts(response) == response.totalVotes # NoCount \/ response.results # <<>>

\* C6: /results and /export answer with counts only if a vote row exists for the
\* caller's (poll, nullifier); otherwise they fail with the must-vote-first
\* error and no counts.
C6_ResultsNeedOwnVote ==
  [][/\ (reader.pc = "gate" /\ reader'.pc # "gate")
          => IF \E v \in votes : v.poll_id = reader.pollId /\ v.nullifier = reader.nullifier
               THEN reader'.pc = "count"
               ELSE /\ reader'.pc = "done"
                    /\ reader'.response.error = "You must vote before viewing results"
                    /\ ~HasCounts(reader'.response)
     /\ (reader'.pc = "done" /\ reader'.kind \in {"results", "export"}
           /\ HasCounts(reader'.response))
          => \E v \in votes' : v.poll_id = reader'.pollId /\ v.nullifier = reader'.nullifier
    ]_vars

\* /results has answered a voter with counts
C6_Witness ==
  /\ reader.pc = "done"
  /\ reader.kind = "results"
  /\ reader.response.totalVotes >= 1

\* C7: /results/public answers with counts only if the poll row it read is
\* closed; for a draft or active poll it fails, with no counts, for any caller.
C7_PublicResultsNeedClosedPoll ==
  [][/\ \A u \in UserIds, p \in PollIds :
          (ResultsReadPoll("public", u, p) /\ polls[p].status # "closed")
          => /\ reader'.pc = "done"
             /\ reader'.response.error # NULL
             /\ ~HasCounts(reader'.response)
     /\ (reader'.pc = "done" /\ reader'.kind = "public" /\ HasCounts(reader'.response))
          => reader'.status = "closed"
    ]_vars

\* /results/public has answered with the counts of a closed poll
C7_Witness ==
  /\ reader.pc = "done"
  /\ reader.kind = "public"
  /\ reader.response.totalVotes >= 1

\* C8: past the gate, the result lists every option of the poll row the handler
\* read, each with the number of votes of the poll for that option, and if the
\* poll has no votes every percentage is zero.
C8_CountsPerOption ==
  [][(reader.pc = "count" /\ reader'.pc = "done")
       => LET res == reader'.response.results
              ofPoll == {v \in votes : v.poll_id = reader.pollId}
          IN  /\ Len(res) = Len(reader.options)
              /\ \A i \in 1..Len(res) :
                   /\ res[i].optionId = reader.options[i].id
                   /\ res[i].count =
                        Cardinality({v \in ofPoll : v.option_id = res[i].optionId})
                   /\ ofPoll = {} => res[i].percentage = 0
    ]_vars

\* a result with an option that has votes and an option that has none
C8_Witness ==
  /\ reader.pc = "done"
  /\ \E i, j \in 1..Len(reader.response.results) :
       /\ reader.response.results[i].count >= 1
       /\ reader.response.results[j].count = 0

(* --------------------------- audit trail: properties ------------------- *)
\* the audit rows of a tenant, in creation order
TenantEvents(t) == SelectSeq(audit_events, LAMBDA e : e.tenant_id = t)

\* C9: the audit rows of every tenant form a hash chain: the first has no
\* previous-event hash, every later one carries the chain hash of the row
\* before it, and so the stored log verifies as valid.
C9_StoredLogIsAChain ==
  \A t \in TenantIds :
    LET ev == TenantEvents(t)
    IN  /\ \A i \in 1..Len(ev) :
             ev[i].previous_event_hash =
               IF i = 1 THEN NULL
               ELSE generateChainHash(ev[i - 1].payload_hash, ev[i - 1].previous_event_hash)
        /\ verifyHashChain(ev)

\* C10: two audit appends of one tenant that ran concurrently never record the
\* same previous-event hash.
C10_ConcurrentAppendsDiffer ==
  \A i \in 1..Len(audit_events), j \in 1..Len(audit_events) :
    (/\ i < j
     /\ audit_events[i].tenant_id = audit_events[j].tenant_id
     /\ appendLog[j].by \in appendLog[i].during)
    => audit_events[i].previous_event_hash # audit_events[j].previous_event_hash

(* ------------------------- audit verifiers: properties ----------------- *)
\* event i of the bundle (1-based) carries the chain hash of the event before it
Linked(events, i) ==
  events[i].previousEventHash =
    generateChainHash(events[i - 1].payloadHash, events[i - 1].previousEventHash)

\* C11: verifyHashChain answers true exactly when the sequence is empty, or its
\* first event has a null previous hash and every later event carries the chain
\* hash of the event before it; in every other case it answers false.
C11_VerifyHashChainExact ==
  verdict.platform.ran =>
    (verdict.platform.valid <=>
       IF Len(bundle) = 0 THEN TRUE
       ELSE /\ bundle[1].previousEventHash = NULL
            /\ \A i \in 2..Len(bundle) : Linked(bundle, i))

\* the platform verifier has rejected a bundle for its first event's previous hash
C11_Witness ==
  /\ verdict.platform.ran
  /\ ~verdict.platform.valid
  /\ bundle[1].previousEventHash # NULL

\* the bundle differs from the appended events in exactly the given field of event k
ChangedOnlyAt(k, field) ==
  /\ k \in 1..Len(bundle)
  /\ bundle[k][field] # pristine[k][field]
  /\ bundle = [pristine EXCEPT ![k][field] = bundle[k][field]]

\* C12: the standalone verifier finds a bundle of appended events valid; after
\* the payload of one event k is changed in place, no hash recomputed, it finds
\* the bundle invalid and an error of its list names index k.
C12_AppendedValidTamperedNamed ==
  verdict.standalone.ran =>
    /\ bundle = pristine => verdict.standalone.valid
    /\ \A k \in 1..Len(bundle) :
         ChangedOnlyAt(k, "payload")
           => /\ ~verdict.standalone.valid
              /\ \E e \in 1..Len(verdict.standalone.errors) :
                   verdict.standalone.errors[e].index = k - 1

\* C13: on a bundle whose payload hashes are all correct, the standalone
\* verifier gives the verdict of the platform's verifyHashChain (the verdict
\* that the export writes as chainValid).
C13_VerifiersAgree ==
  (/\ verdict.platform.ran
   /\ verdict.standalone.ran
   /\ \A i \in 1..Len(bundle) :
        computePayloadHash(bundle[i].payload) = bundle[i].payloadHash)
    => verdict.standalone.valid = verdict.platform.valid

\* C14: after the payload hash or the previous-event hash of one event of a
\* non-empty appended chain is changed, verifyHashChain answers false; with the
\* original value back it answers true.
C14_TamperEvident ==
  (verdict.platform.ran /\ Len(bundle) > 0) =>
    /\ \A k \in 1..Len(bundle) :
         (ChangedOnlyAt(k, "payloadHash") \/ ChangedOnlyAt(k, "previousEventHash"))
           => ~verdict.platform.valid
    /\ bundle = pristine => verdict.platform.valid

RECURSIVE SameContent(_, _)
\* two objects have the same keys, each with the same value, at every depth
SameContent(p, q) ==
  /\ Len(p) = Len(q)
  /\ \A i \in 1..Len(p) : \E j \in 1..Len(q) :
       /\ p[i].key = q[j].key
       /\ p[i].isObject = q[j].isObject
       /\ IF p[i].isObject THEN SameContent(p[i].members, q[j].members)
          ELSE p[i].value = q[j].value

\* C15: two appended events whose payloads have the same content, entered in any
\* order, carry the same payload hash, and the standalone verifier recomputes
\* the same hash for both.
C15_HashIgnoresKeyOrder ==
  \A i, j \in 1..Len(pristine) :
    SameContent(pristine[i].payload, pristine[j].payload)
      => /\ pristine[i].payloadHash = pristine[j].payloadHash
         /\ computePayloadHash(pristine[i].payload) = computePayloadHash(pristine[j].payload)

(* --------------------------- consultations: properties ---------------- *)
StageIndex(stage) == CHOOSE i \in 1..Len(Stages) : Stages[i] = stage

\* C16: a consultation starts at idea_collection, and whenever its current stage
\* changes it moves one stage forward: no stage is skipped or entered again.
C16_StageMovesOneStepForward ==
  [][\A p \in PollIds :
       /\ (\A c \in Transitions : transition[c].pc = "idle")
            => consultation_stages[p].current_stage = "idea_collection"
       /\ consultation_stages'[p].current_stage # consultation_stages[p].current_stage
            => StageIndex(consultation_stages'[p].current_stage) =
                 StageIndex(consultation_stages[p].current_stage) + 1]_vars

\* the request c answers in this step
TransitionAnswers(c) == TransitionInFlight(c) /\ transition'[c].pc = "done"

\* C17: of two overlapping requests for the same poll and the same next stage at
\* most one succeeds, the other fails with "Invalid stage transition", and the
\* ideas are shortlisted only once.
C17_OneConcurrentTransitionWins ==
  [][/\ \A c \in Transitions :
          (TransitionAnswers(c) /\ transition[c].peerSucceeded)
            => /\ ~transition'[c].response.success
               /\ transition'[c].response.error = "Invalid stage transition"
     /\ \A p \in PollIds : shortlistings'[p] <= 1]_vars

\* the caller may transition the poll's stages
MayTransition(userId, pollId) ==
  \/ PollCreator[pollId] = userId
  \/ UserRole[userId] \in {"elected_official", "administration"}

\* C18: a request whose (current stage, requested stage) pair is neither
\* (idea_collection, shortlist_selection) nor (shortlist_selection,
\* final_arbitration) fails with "Invalid stage transition" and changes neither
\* the stage, nor any idea, nor the poll's options.
C18_InvalidTransitionRefused ==
  [][\A c \in Transitions, u \in UserIds, p \in PollIds, n \in NextStages :
       (/\ TransitionBegin(c, u, p, n)
        /\ MayTransition(u, p)
        /\ <<consultation_stages[p].current_stage, n>> \notin
             {<<"idea_collection", "shortlist_selection">>,
              <<"shortlist_selection", "final_arbitration">>})
       => /\ transition'[c].pc = "done"
          /\ transition'[c].response.error = "Invalid stage transition"
          /\ UNCHANGED <<consultation_stages, consultation_ideas, polls>>]_vars

\* a request has been refused as invalid after the consultation has moved on
C18_Witness ==
  /\ consultation_stages["p1"].current_stage = "shortlist_selection"
  /\ \E c \in Transitions :
       /\ transition[c].pc = "done"
       /\ transition[c].response.error = "Invalid stage transition"

\* C19: a request for shortlist_selection made while the poll has fewer ideas
\* than min_ideas_for_stage_2 fails with "Cannot transition to Stage 2" and
\* leaves the stage and every idea as they were; with the count at the
\* threshold or above the request goes on and answers with success.
C19_ThresholdGuardsShortlisting ==
  [][\A c \in Transitions :
       /\ (transition[c].pc = "count" /\ transition'[c].pc # "count")
            => LET p == transition[c].pollId
                   ideasCount == Cardinality({i \in 1..Len(consultation_ideas) :
                                                consultation_ideas[i].poll_id = p})
               IN  IF ideasCount < consultation_stages[p].min_ideas_for_stage_2
                     THEN /\ transition'[c].pc = "done"
                          /\ transition'[c].response.error = "Cannot transition to Stage 2"
                          /\ UNCHANGED <<consultation_stages, consultation_ideas>>
                     ELSE transition'[c].pc = "shortlist"
       /\ (TransitionAnswers(c) /\ transition[c].pc # "count"
             /\ transition[c].nextStage = "shortlist_selection")
            => transition'[c].response.success]_vars

\* a request failed for lack of ideas, one more idea came in, and a later request
\* took the consultation to shortlist_selection
C19_Witness ==
  /\ consultation_stages["p1"].current_stage = "shortlist_selection"
  /\ submit[1].response.success
  /\ \E c, d \in Transitions :
       /\ transition[c].response.error = "Cannot transition to Stage 2"
       /\ transition[d].response.success

\* idea a ranks above idea b: higher score, or equal score and submitted earlier
RanksAbove(a, b) ==
  \/ a.upvotes - a.downvotes > b.upvotes - b.downvotes
  \/ a.upvotes - a.downvotes = b.upvotes - b.downvotes /\ a.created_at < b.created_at

\* C20: when a request for shortlist_selection answers with success, the poll's
\* shortlist_size best-ranked ideas are shortlisted and every other idea of the
\* poll is rejected, so that none is left submitted.
C20_ShortlistIsTheTopRanked ==
  [][\A c \in Transitions :
       (/\ TransitionAnswers(c)
        /\ transition[c].nextStage = "shortlist_selection"
        /\ transition'[c].response.success)
       => LET p == transition[c].pollId
              ideas == consultation_ideas'
              ofPoll == {i \in 1..Len(ideas) : ideas[i].poll_id = p}
              top == {i \in ofPoll :
                        Cardinality({j \in ofPoll : RanksAbove(ideas[j], ideas[i])})
                          < consultation_stages[p].shortlist_size}
          IN  \A i \in ofPoll :
                ideas[i].status = IF i \in top THEN "shortlisted" ELSE "rejected"]_vars

(* --------------- consultations and idea votes: properties -------------- *)
\* the options made of the ideas of poll p that are shortlisted
ShortlistedOptions(ideas, p) ==
  {[id |-> ideas[i].id, text |-> ideas[i].title] :
     i \in {j \in 1..Len(ideas) : ideas[j].poll_id = p /\ ideas[j].status = "shortlisted"}}

\* C21: when a request for final_arbitration answers with success, the poll's
\* options are exactly its shortlisted ideas, each with the idea's id as option
\* id and the idea's title as text, and none of the earlier options remains.
C21_OptionsAreTheShortlist ==
  [][\A c \in Transitions :
       (/\ TransitionAnswers(c)
        /\ transition[c].nextStage = "final_arbitration"
        /\ transition'[c].response.success)
       => LET p == transition[c].pollId
          IN  {polls'[p].options[k] : k \in 1..Len(polls'[p].options)}
                = ShortlistedOptions(consultation_ideas', p)]_vars

\* C22: when a stage transition answers with success, the audit log of the
\* poll's tenant holds an event that records a transition of that poll.
C22_TransitionIsAudited ==
  [][\A c \in Transitions :
       (TransitionAnswers(c) /\ transition'[c].response.success)
       => \E k \in 1..Len(audit_events') :
            /\ audit_events'[k].tenant_id = PollTenant[transition[c].pollId]
            /\ audit_events'[k].target_id = transition[c].pollId]_vars

\* C23: a comment is hidden only if its hiding is in the audit log or the
\* request that hides it is still at work: a hide whose audit insert failed
\* answers with an error and leaves the comment as it was.
C23_FailedAuditUndoesHide ==
  \A k \in CommentIds :
    is_hidden[k] =>
      \/ \E i \in 1..Len(audit_events) :
           /\ audit_events[i].event_type = "comment_hidden"
           /\ audit_events[i].target_id = k
      \/ \E h \in Hides : HideInFlight(h) /\ hide[h].commentId = k

\* C24: an idea is inserted only while its poll's stage is idea_collection and
\* the time is inside the stage-1 window, whatever transitions run beside the
\* submission; a submission that is refused inserts nothing.
C24_IdeasOnlyInIdeaCollection ==
  [][/\ Len(consultation_ideas') > Len(consultation_ideas)
        => LET idea == consultation_ideas'[Len(consultation_ideas')]
               stage == consultation_stages[idea.poll_id]
           IN  /\ stage.current_stage = "idea_collection"
               /\ stage.stage_1_start = NoTime \/ stage.stage_1_start <= now
               /\ stage.stage_1_end = NoTime \/ now <= stage.stage_1_end
     /\ \A c \in Submits :
          (submit[c].pc # "done" /\ submit'[c].pc = "done" /\ ~submit'[c].response.success)
          => consultation_ideas' = consultation_ideas]_vars

\* 1 when a vote of this type is the vote held, 0 otherwise
Holds(vote, voteType) == IF vote = voteType THEN 1 ELSE 0

\* C25: a vote on an idea that runs with no other idea vote beside it is a
\* three-state toggle: with no earlier vote it records the vote and adds one to
\* that type's counter; with an earlier vote of the same type it removes the
\* vote and takes one off that counter; with an earlier vote of the other type
\* it switches the vote, taking one off the old counter and adding one to the new.
C25_VoteOnIdeaToggles ==
  [][\A c \in IdeaVotes :
       (ideaVote[c].pc \in {"row", "count"} /\ ideaVote[c].alone)
       => LET r == ideaVote[c]
              after == IF r.before.vote = r.voteType THEN NULL ELSE r.voteType
              mine == SelectIdeaVotes(consultation_idea_votes', r.ideaId, r.userId)
              idea == consultation_ideas'[IdeaIndex(consultation_ideas', r.ideaId)]
          IN  IF r.pc = "row"
                THEN ideaVote'[c].pc \in {"row", "count"}
                ELSE ideaVote'[c].pc = "done"
                     => /\ ideaVote'[c].response.success
                        /\ IF after = NULL THEN mine = {}
                           ELSE /\ Cardinality(mine) = 1
                                /\ \A v \in mine : v.vote_type = after
                        /\ idea.upvotes = r.before.upvotes
                                            - Holds(r.before.vote, "upvote")
                                            + Holds(after, "upvote")
                        /\ idea.downvotes = r.before.downvotes
                                              - Holds(r.before.vote, "downvote")
                                              + Holds(after, "downvote")]_vars

\* a vote that ran alone has switched u1's upvote on idea i1 to a downvote
C25_Witness ==
  /\ ideaVote[1].pc = "done" /\ ideaVote[1].response.success
  /\ ideaVote[2].pc = "idle"
  /\ consultation_ideas[1].upvotes = 0 /\ consultation_ideas[1].downvotes = 1
  /\ \E v \in consultation_idea_votes :
       v.idea_id = "i1" /\ v.user_id = "u1" /\ v.vote_type = "downvote"

\* C26: once every vote on ideas has answered, each idea's upvote counter is the
\* number of upvote rows for it, its downvote counter the number of downvote
\* rows, and no user has two rows for one idea, also when requests of one user
\* for one idea ran at the same time.
C26_CountersMatchVoteRows ==
  (\A c \in IdeaVotes : ~IdeaVoteInFlight(c))
  => /\ \A i \in 1..Len(consultation_ideas) :
          LET rows(t) == {v \in consultation_idea_votes :
                            v.idea_id = consultation_ideas[i].id /\ v.vote_type = t}
          IN  /\ consultation_ideas[i].upvotes = Cardinality(rows("upvote"))
              /\ consultation_ideas[i].downvotes = Cardinality(rows("downvote"))
     /\ \A v, w \in consultation_idea_votes :
          (v.idea_id = w.idea_id /\ v.user_id = w.user_id) => v = w

\* C28: in every reachable state a poll has at most shortlist_size shortlisted
\* ideas, also when two transitions overlap and idea votes change the scores
\* between their statements.
C28_ShortlistWithinSize ==
  \A p \in PollIds :
    Cardinality({i \in 1..Len(consultation_ideas) :
                   /\ consultation_ideas[i].poll_id = p
                   /\ consultation_ideas[i].status = "shortlisted"})
      <= consultation_stages[p].shortlist_size

(* --------------------------- nullifier: properties --------------------- *)
\* C27: generateNullifier gives the same nullifier for the same (pollId,
\* secret) and, the digest being collision-free, different nullifiers for
\* pairs that differ in the poll id or in the secret: no two distinct pairs
\* are encoded to the same hash input.
C27_NullifierEncodingUnambiguous ==
  \A a, b \in derived :
    (a.pollId = b.pollId /\ a.userSecretSalt = b.userSecretSalt)
      <=> a.nullifier = b.nullifier

(* ---------------------- closed polls and results: properties ----------- *)
\* C29: while a poll's status is closed its votes do not change, whatever the
\* interleaving of vote requests with the update that closes the poll, so that
\* two reads of its public results while it is closed give the same counts.
C29_ClosedPollVotesFrozen ==
  [][\A p \in PollIds :
       (polls[p].status = "closed" /\ polls'[p].status = "closed")
       => {v \in votes' : v.poll_id = p} = {v \in votes : v.poll_id = p}]_vars

RECURSIVE SumOfListed(_, _)
\* the sum of the counts of the first n entries of a result
SumOfListed(results, n) ==
  IF n = 0 THEN 0 ELSE results[n].count + SumOfListed(results, n - 1)

\* C30: in every result a results route returns, totalVotes is the sum of the
\* counts of the options it lists, also once the transition to final_arbitration
\* has replaced the poll's options.
C30_TotalIsSumOfListed ==
  (reader.pc = "done" /\ reader.response.error = NULL)
  => reader.response.totalVotes
       = SumOfListed(reader.response.results, Len(reader.response.results))

====
